---------------------------- MODULE Spec2Model ----------------------------
(***************************************************************************)
(* snapshot-merger: a model of merge_snapshots (src/src/main.rs) and of    *)
(* the batched add_accounts of the library (src/src/merge.rs).             *)
(*                                                                         *)
(* The Bank of solana_runtime is not part of the repository.  It is        *)
(* modelled by what the calls the repository makes are documented to do:   *)
(*   store_account            writes one record into the bank's own slot;  *)
(*   get_program_accounts     returns the records visible through the      *)
(*                            ancestors whose owner is the program and     *)
(*                            whose lamports are not zero;                 *)
(*   scan_all_accounts        visits every key visible through the         *)
(*                            ancestors, zero-lamport records included;    *)
(*   force_flush_accounts_cache, squash, new_from_parent, warp_from_parent *)
(*                            are recorded as the calls they are: a flush  *)
(*                            covers the writes made so far to the bank it *)
(*                            is called on, a squash moves the bank from   *)
(*                            Working to Squashed.                         *)
(***************************************************************************)
EXTENDS Integers, Sequences, FiniteSets, TLC

\* ------------------------------------------------------------------ bounds

\* Number of account keys the enumerated snapshots range over.
NumKeys == 2
\* Largest number of records handed to the batched add_accounts.
MaxRecords == 3
\* Slot of the loaded target (mainnet) snapshot.
BaseSlot == 10
\* Stand-in for FLUSH_INTERVAL_ACCOUNTS = 250_000 (src/src/merge.rs:119),
\* scaled so that a checkpoint happens within MaxRecords records.
FLUSH_INTERVAL_ACCOUNTS == 2
\* Stand-in for u64::MAX, the largest balance and the largest capitalization,
\* scaled so that a sum of balances can pass it.
U64_MAX == 4

\* --------------------------------------------------------------- constants

ACCOUNT_STORAGE_OVERHEAD == 512

\* The owning programs.  VoteProgram and StakeProgram are the two ids the
\* code classifies by; SystemProgram is the id of extract_system_accounts;
\* TokenProgram stands for any other owner.
VoteProgram == "Vote"
StakeProgram == "Stake"
SystemProgram == "System"
TokenProgram == "Token"

\* An AccountSharedData value.
Account(l, d, o, x, r) ==
    [lamports |-> l, data |-> d, owner |-> o, executable |-> x, rent_epoch |-> r]

\* Records a loaded target snapshot may hold under a key: live and dead
\* records of every owner class.
MainnetRecords ==
    { Account(1, <<>>, SystemProgram, FALSE, 0),
      Account(U64_MAX, <<7>>, TokenProgram, TRUE, 0),
      Account(1, <<7>>, VoteProgram, FALSE, 0),
      Account(2, <<>>, StakeProgram, FALSE, 0),
      Account(0, <<7>>, VoteProgram, FALSE, 0),
      Account(0, <<>>, SystemProgram, FALSE, 0) }

\* Records a loaded source (tim cluster) snapshot may hold under a key.
TimRecords ==
    { Account(2, <<8, 8>>, VoteProgram, FALSE, 1),
      Account(1, <<8>>, StakeProgram, FALSE, 1),
      Account(1, <<>>, SystemProgram, FALSE, 1),
      Account(0, <<8>>, VoteProgram, FALSE, 1) }

\* All maps from a subset of ks to records of rs.
AccountMaps(ks, rs) == UNION { [s -> rs] : s \in SUBSET ks }

EmptyMap == [k \in {} |-> 0]

\* ------------------------------------------------------- the Bank arena

\* A bank: its slot, its parent (an index of the arena, 0 for a root), the
\* records written into its own slot, the keys written since the last
\* flush called on it, and the phases it has gone through.
NewBank(slot, parent, collector, cap) ==
    [slot |-> slot, parent |-> parent, collector_id |-> collector,
     store |-> EmptyMap, unflushed |-> {}, capitalization |-> cap,
     phase |-> "Working", history |-> <<"Working">>, complete |-> FALSE]

\* A bank as load_bank_forks hands it over: a root holding the snapshot.
LoadedBank(slot, accts, collector, cap) ==
    [slot |-> slot, parent |-> 0, collector_id |-> collector,
     store |-> accts, unflushed |-> {}, capitalization |-> cap,
     phase |-> "Squashed", history |-> <<"Working", "Squashed">>,
     complete |-> TRUE]

RECURSIVE VisibleKeys(_, _)
VisibleKeys(bs, i) ==
    IF i = 0 THEN {}
    ELSE (DOMAIN bs[i].store) \cup VisibleKeys(bs, bs[i].parent)

RECURSIVE LoadAccount(_, _, _)
LoadAccount(bs, i, k) ==
    IF k \in DOMAIN bs[i].store THEN bs[i].store[k]
    ELSE LoadAccount(bs, bs[i].parent, k)

\* Every record the bank sees through its ancestors.
AccountsOf(bs, i) == [k \in VisibleKeys(bs, i) |-> LoadAccount(bs, i, k)]

\* The live (nonzero-balance) keys of a bank.
LiveKeys(bs, i) == { k \in VisibleKeys(bs, i) : LoadAccount(bs, i, k).lamports # 0 }

get_program_accounts(bs, i, program_id) ==
    LET ks == { k \in VisibleKeys(bs, i) :
                  /\ LoadAccount(bs, i, k).owner = program_id
                  /\ LoadAccount(bs, i, k).lamports # 0 }
    IN [k \in ks |-> LoadAccount(bs, i, k)]

\* Bank::store_account on bank b.
store_account(b, k, a) ==
    [b EXCEPT !.store = [x \in (DOMAIN b.store) \cup {k} |->
                            IF x = k THEN a ELSE b.store[x]],
              !.unflushed = b.unflushed \cup {k}]

\* Stores every record of the map m into bank b, one store_account each.
StoreAll(b, m) ==
    [b EXCEPT !.store = [x \in (DOMAIN b.store) \cup (DOMAIN m) |->
                            IF x \in DOMAIN m THEN m[x] ELSE b.store[x]],
              !.unflushed = b.unflushed \cup (DOMAIN m)]

force_flush_accounts_cache(b) == [b EXCEPT !.unflushed = {}]

squash(b) ==
    IF b.phase = "Working"
    THEN [b EXCEPT !.phase = "Squashed", !.history = Append(b.history, "Squashed")]
    ELSE b

\* Mutant: setting the balance also empties the data.
set_lamports_clearing_data(a, l) == [a EXCEPT !.lamports = l, !.data = <<>>]

set_lamports(a, l) == [a EXCEPT !.lamports = l]

RECURSIVE SumLamports(_, _)
SumLamports(m, ks) ==
    IF ks = {} THEN 0
    ELSE LET k == CHOOSE x \in ks : TRUE
         IN m[k].lamports + SumLamports(m, ks \ {k})

\* The classifiers and the removals (the copies in main.rs, lines 116-174,
\* are the same code).
extract_vote_accounts(bs, i) == get_program_accounts(bs, i, VoteProgram)

extract_stake_accounts(bs, i) == get_program_accounts(bs, i, StakeProgram)

\* Mutant: the third classifier scans by the Vote program id.
extract_system_accounts_scanning_vote(bs, i) ==
    get_program_accounts(bs, i, VoteProgram)

extract_system_accounts(bs, i) == get_program_accounts(bs, i, SystemProgram)

\* Mutant: the loop of the removal stores nothing back.
ZeroAll_nothing_stored(b, accts) == b

\* Zeroes the balance of every record of the scan and stores it back.
ZeroAll(b, accts) ==
    StoreAll(b, [k \in DOMAIN accts |-> set_lamports(accts[k], 0)])

\* Mutant: the vote removal scans the system program.
remove_vote_accounts_scanning_system(bs, i) ==
    LET accts == get_program_accounts(bs, i, SystemProgram)
    IN [banks |-> [bs EXCEPT ![i] = ZeroAll(bs[i], accts)],
        count |-> Cardinality(DOMAIN accts)]

remove_vote_accounts(bs, i) ==
    LET accts == get_program_accounts(bs, i, VoteProgram)
    IN [banks |-> [bs EXCEPT ![i] = ZeroAll(bs[i], accts)],
        count |-> Cardinality(DOMAIN accts)]

\* Mutant: the stake removal scans the vote program.
remove_stake_accounts_scanning_vote(bs, i) ==
    LET accts == get_program_accounts(bs, i, VoteProgram)
    IN [banks |-> [bs EXCEPT ![i] = ZeroAll(bs[i], accts)],
        count |-> Cardinality(DOMAIN accts)]

remove_stake_accounts(bs, i) ==
    LET accts == get_program_accounts(bs, i, StakeProgram)
    IN [banks |-> [bs EXCEPT ![i] = ZeroAll(bs[i], accts)],
        count |-> Cardinality(DOMAIN accts)]

\* Mutant: add_accounts stores nothing.
main_add_accounts_nothing_stored(bs, i, accts) == bs

\* add_accounts of main.rs: every record of the map stored into the bank.
main_add_accounts(bs, i, accts) == [bs EXCEPT ![i] = StoreAll(bs[i], accts)]

count_total_accounts(bs, i) == Cardinality(VisibleKeys(bs, i))

\* Mutant: the capitalization is not recomputed, the stored value is kept.
calculate_capitalization_stale(bs, i) == bs[i].capitalization

calculate_capitalization(bs, i) ==
    SumLamports(AccountsOf(bs, i), VisibleKeys(bs, i))

\* ------------------------------------------------------------ the state

VARIABLES
    banks,               \* the arena of Bank objects (Arc<Bank>), by index
    pc,                  \* the position of merge_snapshots
    failed_at,           \* the step whose error merge_snapshots returned
    mainnet_bank,        \* indices into banks; 0 while not yet bound
    tim_cluster_bank,
    merged_bank,
    final_bank,
    tim_vote_accounts,   \* the maps extracted from the source snapshot
    tim_stake_accounts,
    warp_slot,           \* Option<Slot>: <<>> is None, <<s>> is Some(s)
    stats,               \* the locals that end up in MergeStats
    dirs,                \* the directories created so far
    archive,             \* what the Writer serialized; <<>> while none
    \* the batched add_accounts of merge.rs
    apc,                 \* its position: "idle", "loop", "done"
    accounts,            \* the accounts argument (a HashMap)
    slot_byte_limit,     \* the slot_byte_limit argument
    starting_bank,       \* the starting_bank argument, an index into banks
    remaining,           \* the keys the for loop has not visited yet
    current_bank,
    count_since_flush,
    bytes_in_current_slot,
    applied,             \* the keys in the order the loop visited them
    returned,            \* the bank returned; 0 while none
    prev_run             \* the slots of an earlier run on the same input

mergeVars == <<pc, failed_at, mainnet_bank, tim_cluster_bank, merged_bank,
               final_bank, tim_vote_accounts, tim_stake_accounts, warp_slot,
               stats, dirs, archive>>

batchVars == <<apc, accounts, slot_byte_limit, starting_bank, remaining,
               current_bank, count_since_flush, bytes_in_current_slot,
               applied, returned, prev_run>>

\* The snapshots a ledger directory may hold.  The fixture of the spec's
\* overwrite example, A, B, C, D, E being the keys 1, 2, 3, 4, 5:
FixtureTarget ==
    [k \in 1..3 |-> CASE k = 1 -> Account(1, <<>>, SystemProgram, FALSE, 0)
                      [] k = 2 -> Account(1, <<7>>, VoteProgram, FALSE, 0)
                      [] k = 3 -> Account(2, <<>>, StakeProgram, FALSE, 0)]

FixtureSource ==
    [k \in 4..5 |-> CASE k = 4 -> Account(2, <<8, 8>>, VoteProgram, FALSE, 1)
                      [] k = 5 -> Account(1, <<8>>, StakeProgram, FALSE, 1)]

\* A snapshot holds a capitalization, a u64: its balances sum to U64_MAX at most.
FitsU64(snap) == SumLamports(snap, DOMAIN snap) <= U64_MAX

MainnetSnapshots ==
    { snap \in AccountMaps(1..NumKeys, MainnetRecords) \cup {FixtureTarget} :
        FitsU64(snap) }

TimSnapshots ==
    { snap \in AccountMaps(1..NumKeys, TimRecords) \cup {FixtureSource} :
        FitsU64(snap) }

\* The values of --warp-slot: absent, or a slot below, at or above the slot
\* of the merged bank (BaseSlot + 1).
WarpSlots == {<<>>} \cup { <<s>> : s \in BaseSlot..(BaseSlot + 3) }

InitStats ==
    [mainnet_total_accounts |-> 0, mainnet_vote_accounts_removed |-> 0,
     mainnet_stake_accounts_removed |-> 0, final_total_accounts |-> 0,
     capitalization_before |-> 0, capitalization_after |-> 0]

MergeInit ==
    /\ pc = "open_genesis"
    /\ failed_at = "none"
    /\ mainnet_bank = 0
    /\ tim_cluster_bank = 0
    /\ merged_bank = 0
    /\ final_bank = 0
    /\ tim_vote_accounts = EmptyMap
    /\ tim_stake_accounts = EmptyMap
    /\ warp_slot = <<>>
    /\ stats = InitStats
    /\ dirs = {}
    /\ archive = <<>>

\* A step returns Err: merge_snapshots returns it (the ? operator).
Fail(step) ==
    /\ pc' = "error"
    /\ failed_at' = step

\* main.rs:249  open_genesis_config(mainnet_ledger)
OpenGenesis ==
    /\ pc = "open_genesis"
    /\ UNCHANGED batchVars
    /\ \/ pc' = "load_mainnet" /\ UNCHANGED failed_at
       \/ Fail("open_genesis")
    /\ UNCHANGED <<banks, mainnet_bank, tim_cluster_bank, merged_bank, final_bank,
                   tim_vote_accounts, tim_stake_accounts, warp_slot, stats,
                   dirs, archive>>

\* Mutant: the merged child is created as soon as the target is loaded.
LoadMainnet_creating_child ==
    /\ pc = "load_mainnet"
    /\ UNCHANGED batchVars
    /\ \/ /\ \E snap \in MainnetSnapshots :
                banks' = banks \o
                    << LoadedBank(BaseSlot, snap, "mainnet_leader",
                                  SumLamports(snap, DOMAIN snap)),
                       NewBank(BaseSlot + 1, Len(banks) + 1, "mainnet_leader",
                               SumLamports(snap, DOMAIN snap)) >>
          /\ mainnet_bank' = Len(banks) + 1
          /\ merged_bank' = Len(banks) + 2
          /\ pc' = "count_mainnet"
          /\ UNCHANGED failed_at
       \/ Fail("load_mainnet") /\ UNCHANGED <<banks, mainnet_bank, merged_bank>>
    /\ UNCHANGED <<tim_cluster_bank, final_bank, tim_vote_accounts,
                   tim_stake_accounts, warp_slot, stats, dirs, archive>>

\* main.rs:255  load_bank_from_snapshot(mainnet_ledger)
LoadMainnet ==
    /\ pc = "load_mainnet"
    /\ UNCHANGED batchVars
    /\ \/ /\ \E snap \in MainnetSnapshots :
                banks' = Append(banks,
                    LoadedBank(BaseSlot, snap, "mainnet_leader",
                               SumLamports(snap, DOMAIN snap)))
          /\ mainnet_bank' = Len(banks) + 1
          /\ pc' = "count_mainnet"
          /\ UNCHANGED failed_at
       \/ Fail("load_mainnet") /\ UNCHANGED <<banks, mainnet_bank>>
    /\ UNCHANGED <<tim_cluster_bank, merged_bank, final_bank, tim_vote_accounts,
                   tim_stake_accounts, warp_slot, stats, dirs, archive>>

\* main.rs:256  count_total_accounts(&mainnet_bank)
CountMainnet ==
    /\ pc = "count_mainnet"
    /\ UNCHANGED batchVars
    /\ \/ /\ stats' = [stats EXCEPT !.mainnet_total_accounts =
                                      count_total_accounts(banks, mainnet_bank)]
          /\ pc' = "open_tim_genesis"
          /\ UNCHANGED failed_at
       \/ Fail("count_mainnet") /\ UNCHANGED stats
    /\ UNCHANGED <<banks, mainnet_bank, tim_cluster_bank, merged_bank, final_bank,
                   tim_vote_accounts, tim_stake_accounts, warp_slot, dirs, archive>>

\* main.rs:261  open_genesis_config(tim_cluster_ledger)
OpenTimGenesis ==
    /\ pc = "open_tim_genesis"
    /\ UNCHANGED batchVars
    /\ \/ pc' = "load_tim" /\ UNCHANGED failed_at
       \/ Fail("open_tim_genesis")
    /\ UNCHANGED <<banks, mainnet_bank, tim_cluster_bank, merged_bank, final_bank,
                   tim_vote_accounts, tim_stake_accounts, warp_slot, stats,
                   dirs, archive>>

\* main.rs:263  load_bank_from_snapshot(tim_cluster_ledger)
LoadTim ==
    /\ pc = "load_tim"
    /\ UNCHANGED batchVars
    /\ \/ /\ \E snap \in TimSnapshots :
                banks' = Append(banks,
                    LoadedBank(BaseSlot, snap, "tim_leader",
                               SumLamports(snap, DOMAIN snap)))
          /\ tim_cluster_bank' = Len(banks) + 1
          /\ pc' = "extract_vote"
          /\ UNCHANGED failed_at
       \/ Fail("load_tim") /\ UNCHANGED <<banks, tim_cluster_bank>>
    /\ UNCHANGED <<mainnet_bank, merged_bank, final_bank, tim_vote_accounts,
                   tim_stake_accounts, warp_slot, stats, dirs, archive>>

\* main.rs:267  extract_vote_accounts(&tim_cluster_bank)
ExtractVote ==
    /\ pc = "extract_vote"
    /\ UNCHANGED batchVars
    /\ \/ /\ tim_vote_accounts' = extract_vote_accounts(banks, tim_cluster_bank)
          /\ pc' = "extract_stake"
          /\ UNCHANGED failed_at
       \/ Fail("extract_vote") /\ UNCHANGED tim_vote_accounts
    /\ UNCHANGED <<banks, mainnet_bank, tim_cluster_bank, merged_bank, final_bank,
                   tim_stake_accounts, warp_slot, stats, dirs, archive>>

\* main.rs:268  extract_stake_accounts(&tim_cluster_bank)
ExtractStake ==
    /\ pc = "extract_stake"
    /\ UNCHANGED batchVars
    /\ \/ /\ tim_stake_accounts' = extract_stake_accounts(banks, tim_cluster_bank)
          /\ pc' = "new_child"
          /\ UNCHANGED failed_at
       \/ Fail("extract_stake") /\ UNCHANGED tim_stake_accounts
    /\ UNCHANGED <<banks, mainnet_bank, tim_cluster_bank, merged_bank, final_bank,
                   tim_vote_accounts, warp_slot, stats, dirs, archive>>

\* main.rs:272-279  Bank::new_from_parent(mainnet_bank, collector, slot + 1)
NewChild ==
    /\ pc = "new_child"
    /\ UNCHANGED batchVars
    /\ banks' = Append(banks,
           NewBank(banks[mainnet_bank].slot + 1, mainnet_bank,
                   banks[mainnet_bank].collector_id,
                   banks[mainnet_bank].capitalization))
    /\ merged_bank' = Len(banks) + 1
    /\ stats' = [stats EXCEPT !.capitalization_before =
                                banks[mainnet_bank].capitalization]
    /\ pc' = "remove_vote"
    /\ UNCHANGED <<failed_at, mainnet_bank, tim_cluster_bank, final_bank,
                   tim_vote_accounts, tim_stake_accounts, warp_slot, dirs, archive>>

\* main.rs:283  remove_vote_accounts(&merged_bank)
RemoveVote ==
    /\ pc = "remove_vote"
    /\ UNCHANGED batchVars
    /\ \/ /\ LET r == remove_vote_accounts(banks, merged_bank)
             IN /\ banks' = r.banks
                /\ stats' = [stats EXCEPT !.mainnet_vote_accounts_removed = r.count]
          /\ pc' = "remove_stake"
          /\ UNCHANGED failed_at
       \/ Fail("remove_vote") /\ UNCHANGED <<banks, stats>>
    /\ UNCHANGED <<mainnet_bank, tim_cluster_bank, merged_bank, final_bank,
                   tim_vote_accounts, tim_stake_accounts, warp_slot, dirs, archive>>

\* main.rs:284  remove_stake_accounts(&merged_bank)
RemoveStake ==
    /\ pc = "remove_stake"
    /\ UNCHANGED batchVars
    /\ \/ /\ LET r == remove_stake_accounts(banks, merged_bank)
             IN /\ banks' = r.banks
                /\ stats' = [stats EXCEPT !.mainnet_stake_accounts_removed = r.count]
          /\ pc' = "add_vote"
          /\ UNCHANGED failed_at
       \/ Fail("remove_stake") /\ UNCHANGED <<banks, stats>>
    /\ UNCHANGED <<mainnet_bank, tim_cluster_bank, merged_bank, final_bank,
                   tim_vote_accounts, tim_stake_accounts, warp_slot, dirs, archive>>

\* main.rs:288  add_accounts(&merged_bank, &tim_vote_accounts, "vote")
AddVote ==
    /\ pc = "add_vote"
    /\ UNCHANGED batchVars
    /\ banks' = main_add_accounts(banks, merged_bank, tim_vote_accounts)
    /\ pc' = "add_stake"
    /\ UNCHANGED <<failed_at, mainnet_bank, tim_cluster_bank, merged_bank,
                   final_bank, tim_vote_accounts, tim_stake_accounts, warp_slot,
                   stats, dirs, archive>>

\* main.rs:289  add_accounts(&merged_bank, &tim_stake_accounts, "stake")
AddStake ==
    /\ pc = "add_stake"
    /\ UNCHANGED batchVars
    /\ banks' = main_add_accounts(banks, merged_bank, tim_stake_accounts)
    /\ pc' = "recalculate"
    /\ UNCHANGED <<failed_at, mainnet_bank, tim_cluster_bank, merged_bank,
                   final_bank, tim_vote_accounts, tim_stake_accounts, warp_slot,
                   stats, dirs, archive>>

\* main.rs:293-295  calculate_capitalization_for_tests, set_capitalization.
\* The sum is taken in a wider type and checked against u64: a sum past
\* u64::MAX aborts the process inside the library.
Recalculate ==
    /\ pc = "recalculate"
    /\ UNCHANGED batchVars
    /\ LET cap == calculate_capitalization(banks, merged_bank)
       IN IF cap <= U64_MAX
          THEN /\ banks' = [banks EXCEPT ![merged_bank].capitalization = cap]
               /\ stats' = [stats EXCEPT !.capitalization_after = cap]
               /\ pc' = "warp"
          ELSE /\ pc' = "panic"
               /\ UNCHANGED <<banks, stats>>
    /\ UNCHANGED <<failed_at, mainnet_bank, tim_cluster_bank, merged_bank,
                   final_bank, tim_vote_accounts, tim_stake_accounts, warp_slot,
                   dirs, archive>>

\* Bank::warp_from_parent(parent, collector_id, slot): a new Working bank at
\* the given slot whose parent is the given bank.
warp_from_parent(bs, parent, collector, slot) ==
    Append(bs, NewBank(slot, parent, collector, bs[parent].capitalization))

\* Mutant: the warp does not squash the merged bank.
PrepareWarp_without_squash(bs, i) ==
    [bs EXCEPT ![i] = force_flush_accounts_cache(@)]

\* main.rs:307-308  merged_bank.squash(); merged_bank.force_flush_accounts_cache()
PrepareWarp(bs, i) == [bs EXCEPT ![i] = force_flush_accounts_cache(squash(@))]

\* main.rs:305-318  the warp, when --warp-slot is given.  The code holds no
\* check of the slot against the merged bank's.  For a slot that is not above
\* it, what happens is the library's doing: a panic inside warp_from_parent
\* (new_from_parent asserts that the slot differs from the parent's), or,
\* for a slot below the parent's, a bank at that slot.
Warp ==
    /\ pc = "warp"
    /\ UNCHANGED batchVars
    /\ \E w \in WarpSlots :
         /\ warp_slot' = w
         /\ IF w = <<>>
            THEN /\ final_bank' = merged_bank
                 /\ pc' = "count_final"
                 /\ UNCHANGED banks
            ELSE LET squashed == PrepareWarp(banks, merged_bank)
                 IN \/ /\ w[1] # banks[merged_bank].slot
                       /\ banks' = warp_from_parent(squashed, merged_bank,
                                         banks[merged_bank].collector_id, w[1])
                       /\ final_bank' = Len(banks) + 1
                       /\ pc' = "count_final"
                    \/ /\ w[1] <= banks[merged_bank].slot
                       /\ banks' = squashed
                       /\ pc' = "panic"
                       /\ UNCHANGED final_bank
    /\ UNCHANGED <<failed_at, mainnet_bank, tim_cluster_bank, merged_bank,
                   tim_vote_accounts, tim_stake_accounts, stats, dirs, archive>>

\* main.rs:320  count_total_accounts(&final_bank)
CountFinal ==
    /\ pc = "count_final"
    /\ UNCHANGED batchVars
    /\ \/ /\ stats' = [stats EXCEPT !.final_total_accounts =
                                      count_total_accounts(banks, final_bank)]
          /\ pc' = "create_dir"
          /\ UNCHANGED failed_at
       \/ Fail("count_final") /\ UNCHANGED stats
    /\ UNCHANGED <<banks, mainnet_bank, tim_cluster_bank, merged_bank, final_bank,
                   tim_vote_accounts, tim_stake_accounts, warp_slot, dirs, archive>>

\* main.rs:324  std::fs::create_dir_all(output_snapshot_dir)
CreateDir ==
    /\ pc = "create_dir"
    /\ UNCHANGED batchVars
    /\ \/ /\ dirs' = dirs \cup {"output"}
          /\ pc' = "create_snapshot"
          /\ UNCHANGED failed_at
       \/ Fail("create_dir") /\ UNCHANGED dirs
    /\ UNCHANGED <<banks, mainnet_bank, tim_cluster_bank, merged_bank, final_bank,
                   tim_vote_accounts, tim_stake_accounts, warp_slot, stats, archive>>

\* What bank_to_full_snapshot_archive is handed: the bank as it is.
Serialized(bs, i) ==
    [slot |-> bs[i].slot, accounts |-> AccountsOf(bs, i),
     capitalization |-> bs[i].capitalization, phase |-> bs[i].phase,
     unflushed |-> bs[i].unflushed]

fill_bank_with_ticks(b) == [b EXCEPT !.complete = TRUE]

Archived(b) ==
    [b EXCEPT !.phase = "Archived", !.history = Append(b.history, "Archived")]

\* main.rs:327  create_snapshot_from_bank(&final_bank, output_snapshot_dir)
\* (main.rs:198-234): ticks, the bank_snapshots directory, the archive.
CreateSnapshot ==
    /\ pc = "create_snapshot"
    /\ UNCHANGED batchVars
    /\ LET ticked == [banks EXCEPT ![final_bank] = fill_bank_with_ticks(@)]
       IN \/ /\ banks' = [ticked EXCEPT ![final_bank] = Archived(@)]
             /\ dirs' = dirs \cup {"bank_snapshots"}
             /\ archive' = <<Serialized(ticked, final_bank)>>
             /\ pc' = "done"
             /\ UNCHANGED failed_at
          \/ /\ banks' = ticked
             /\ Fail("create_bank_snapshots_dir")
             /\ UNCHANGED <<dirs, archive>>
          \/ /\ banks' = ticked
             /\ dirs' = dirs \cup {"bank_snapshots"}
             /\ Fail("create_snapshot_archive")
             /\ UNCHANGED archive
    /\ UNCHANGED <<mainnet_bank, tim_cluster_bank, merged_bank, final_bank,
                   tim_vote_accounts, tim_stake_accounts, warp_slot, stats>>

MergeNext ==
    \/ OpenGenesis \/ LoadMainnet \/ CountMainnet \/ OpenTimGenesis \/ LoadTim
    \/ ExtractVote \/ ExtractStake \/ NewChild \/ RemoveVote \/ RemoveStake
    \/ AddVote \/ AddStake \/ Recalculate \/ Warp \/ CountFinal \/ CreateDir
    \/ CreateSnapshot

vars == <<banks, mergeVars, batchVars>>

\* add_accounts of merge.rs is not running.
BatchIdle ==
    /\ apc = "idle"
    /\ accounts = EmptyMap
    /\ slot_byte_limit = 0
    /\ starting_bank = 0
    /\ remaining = {}
    /\ current_bank = 0
    /\ count_since_flush = 0
    /\ bytes_in_current_slot = 0
    /\ applied = <<>>
    /\ returned = 0
    /\ prev_run = <<>>

Init == banks = <<>> /\ MergeInit /\ BatchIdle

Next == MergeNext

\* One run of merge_snapshots.
Spec == Init /\ [][Next]_vars

\* -------------------------------------- add_accounts of merge.rs, batched

\* The payloads of the records handed to add_accounts: 0, 1 and 2 bytes, of
\* approximate cost 512, 513 and 514.
BatchRecords ==
    { Account(1, d, VoteProgram, FALSE, 1) : d \in {<<>>, <<8>>, <<8, 8>>} }

\* The accounts argument: up to MaxRecords records.
BatchInputs == AccountMaps(1..MaxRecords, BatchRecords)

\* The slot_byte_limit argument: zero, a limit every record reaches, one
\* only the larger records reach, limits two records reach with and without
\* overshoot, and one no input reaches.
ByteLimits == {0, 512, 513, 600, 1000, 1025, 2000}

\* What the starting bank sees through its parent before the call: an older
\* record under the keys 1..n.
BaseStates ==
    { [k \in 1..n |-> Account(2, <<7>>, SystemProgram, FALSE, 0)] :
        n \in 0..MaxRecords }

\* The arena at the call: a base bank and the starting bank, its child.
StartingChain(base) ==
    << LoadedBank(BaseSlot, base, "leader", SumLamports(base, DOMAIN base)),
       NewBank(BaseSlot + 1, 1, "leader", SumLamports(base, DOMAIN base)) >>

MergeIdle ==
    /\ pc = "none"
    /\ failed_at = "none"
    /\ mainnet_bank = 0
    /\ tim_cluster_bank = 0
    /\ merged_bank = 0
    /\ final_bank = 0
    /\ tim_vote_accounts = EmptyMap
    /\ tim_stake_accounts = EmptyMap
    /\ warp_slot = <<>>
    /\ stats = InitStats
    /\ dirs = {}
    /\ archive = <<>>

\* merge.rs:120-122  the locals of add_accounts at the head of the loop.
BatchInit ==
    /\ MergeIdle
    /\ \E base \in BaseStates : banks = StartingChain(base)
    /\ accounts \in BatchInputs
    /\ slot_byte_limit \in ByteLimits
    /\ apc = "loop"
    /\ starting_bank = 2
    /\ current_bank = 2
    /\ remaining = DOMAIN accounts
    /\ count_since_flush = 0
    /\ bytes_in_current_slot = 0
    /\ applied = <<>>
    /\ returned = 0
    /\ prev_run = <<>>

\* merge.rs:129
approx_bytes(account) == Len(account.data) + ACCOUNT_STORAGE_OVERHEAD

\* Mutant: the periodic flush never comes due.
CheckpointDue_never(count) == FALSE

\* merge.rs:132
CheckpointDue(count) == count % FLUSH_INTERVAL_ACCOUNTS = 0

\* Mutant: the limit must be exceeded, not reached.
LimitReached_strict(bytes, limit) == bytes > limit

\* merge.rs:143
LimitReached(bytes, limit) == bytes >= limit

\* Bank::new_from_parent(parent, collector_id, slot)
new_from_parent(bs, parent, collector, slot) ==
    Append(bs, NewBank(slot, parent, collector, bs[parent].capitalization))

\* Mutant: the child of an ended slot is created from that slot's parent.
EndSlot_child_of_grandparent(bs, cur) ==
    LET closed == [bs EXCEPT ![cur] = squash(force_flush_accounts_cache(@))]
    IN new_from_parent(closed, closed[cur].parent, closed[cur].collector_id,
                       closed[cur].slot + 1)

\* Mutant: the slot is ended without the squash.
EndSlot_without_squash(bs, cur) ==
    LET closed == [bs EXCEPT ![cur] = force_flush_accounts_cache(@)]
    IN new_from_parent(closed, cur, closed[cur].collector_id, closed[cur].slot + 1)

\* merge.rs:149-155  flush, squash, and a child at the next slot.
EndSlot(bs, cur) ==
    LET closed == [bs EXCEPT ![cur] = squash(force_flush_accounts_cache(@))]
    IN new_from_parent(closed, cur, closed[cur].collector_id, closed[cur].slot + 1)

\* Mutant: the byte counter is not reset when a slot ends.
CountersAfterEndSlot_bytes_kept(count, bytes) == [count |-> 0, bytes |-> bytes]

\* merge.rs:156-157  the counters after a slot has ended.
CountersAfterEndSlot(count, bytes) == [count |-> 0, bytes |-> 0]

\* Mutant: no flush after the loop.
FinalFlush_skipped(bs, cur) == bs

\* merge.rs:168  the flush after the loop.
FinalFlush(bs, cur) == [bs EXCEPT ![cur] = force_flush_accounts_cache(@)]

\* merge.rs:126-158  one iteration of the for loop, on the key the HashMap's
\* iterator yields next (any key not yet visited).
AddAccountsIterate ==
    /\ apc = "loop"
    /\ \E pubkey \in remaining :
         LET account == accounts[pubkey]
             stored == [banks EXCEPT ![current_bank] =
                           store_account(@, pubkey, account)]
             count == count_since_flush + 1
             bytes == bytes_in_current_slot + approx_bytes(account)
             checkpointed ==
                 IF CheckpointDue(count)
                 THEN [stored EXCEPT ![current_bank] = force_flush_accounts_cache(@)]
                 ELSE stored
         IN /\ remaining' = remaining \ {pubkey}
            /\ applied' = Append(applied, pubkey)
            /\ IF LimitReached(bytes, slot_byte_limit)
               THEN /\ banks' = EndSlot(checkpointed, current_bank)
                    /\ current_bank' = Len(banks) + 1
                    /\ count_since_flush' = CountersAfterEndSlot(count, bytes).count
                    /\ bytes_in_current_slot' = CountersAfterEndSlot(count, bytes).bytes
               ELSE /\ banks' = checkpointed
                    /\ count_since_flush' = count
                    /\ bytes_in_current_slot' = bytes
                    /\ UNCHANGED current_bank
    /\ UNCHANGED <<apc, accounts, slot_byte_limit, starting_bank, returned, prev_run>>
    /\ UNCHANGED mergeVars

\* merge.rs:161-171  the loop is over: the final flush, Ok(current_bank).
AddAccountsReturn ==
    /\ apc = "loop"
    /\ remaining = {}
    /\ banks' = FinalFlush(banks, current_bank)
    /\ returned' = current_bank
    /\ apc' = "done"
    /\ UNCHANGED <<accounts, slot_byte_limit, starting_bank, remaining,
                   current_bank, count_since_flush, bytes_in_current_slot,
                   applied, prev_run>>
    /\ UNCHANGED mergeVars

BatchNext == AddAccountsIterate \/ AddAccountsReturn

\* One call of add_accounts (merge.rs) on a starting bank.
SpecBatch == BatchInit /\ [][BatchNext]_vars

\* The banks of the chain from the starting bank on, in order.
Chain == starting_bank..Len(banks)

\* The keys each bank of the chain received, slot by slot.
SlotAssignment == [i \in 1..(Len(banks) - starting_bank + 1) |->
                     DOMAIN banks[starting_bank + i - 1].store]

\* The program is run again on the same input: the same arguments, a
\* HashMap holding the same records, the starting bank as it was.
RunAgain ==
    /\ apc = "done"
    /\ prev_run = <<>>
    /\ prev_run' = <<SlotAssignment>>
    /\ banks' = SubSeq(banks, 1, starting_bank - 1)
                   \o <<NewBank(banks[starting_bank].slot, banks[starting_bank].parent,
                                banks[starting_bank].collector_id,
                                banks[starting_bank].capitalization)>>
    /\ apc' = "loop"
    /\ current_bank' = starting_bank
    /\ remaining' = DOMAIN accounts
    /\ count_since_flush' = 0
    /\ bytes_in_current_slot' = 0
    /\ applied' = <<>>
    /\ returned' = 0
    /\ UNCHANGED <<accounts, slot_byte_limit, starting_bank>>
    /\ UNCHANGED mergeVars

TwoRunsNext == AddAccountsIterate \/ AddAccountsReturn \/ RunAgain

\* Two calls of add_accounts on the same input, one after the other.
SpecTwoRuns == BatchInit /\ [][TwoRunsNext]_vars

\* ------------------------------------------------- the owner classes

\* The live keys of a bank whose owner is neither the vote nor the stake
\* program: the Other class.
OtherKeys(bs, i) ==
    { k \in LiveKeys(bs, i) :
        LoadAccount(bs, i, k).owner \notin {VoteProgram, StakeProgram} }

\* The live keys of a bank owned by the vote or the stake program.
ValidatorKeys(bs, i) ==
    { k \in LiveKeys(bs, i) :
        LoadAccount(bs, i, k).owner \in {VoteProgram, StakeProgram} }

\* merge_snapshots has run its remove and add steps (main.rs:283-289).
AddsDone ==
    \/ pc \in {"recalculate", "warp", "count_final", "create_dir",
                "create_snapshot", "done", "panic"}
    \/ /\ pc = "error"
       /\ failed_at \in {"count_final", "create_dir",
                          "create_bank_snapshots_dir", "create_snapshot_archive"}

\* merge_snapshots has run its two removals and no add yet (main.rs:284).
RemovalsDone == pc = "add_vote"

\* ---------------------------------------------------------------- claims

\* C1: cross-source overwrite.  Once the remove and add steps have run, the
\* live keys of the merged bank are exactly the target's Other keys together
\* with the source's live Vote and Stake keys; a target Vote or Stake key is
\* live only if the source holds a Vote or Stake account under it; and the
\* fixture {A(Other), B(Vote), C(Stake)} with {D(Vote), E(Stake)} gives
\* {A, D, E}.
C1_OverwriteCorrect ==
    AddsDone =>
      /\ LiveKeys(banks, merged_bank) =
            OtherKeys(banks, mainnet_bank) \cup ValidatorKeys(banks, tim_cluster_bank)
      /\ \A k \in ValidatorKeys(banks, mainnet_bank) :
            k \in LiveKeys(banks, merged_bank)
               => k \in ValidatorKeys(banks, tim_cluster_bank)
      /\ ( /\ banks[mainnet_bank].store = FixtureTarget
           /\ banks[tim_cluster_bank].store = FixtureSource )
           => LiveKeys(banks, merged_bank) = {1, 4, 5}

C1_Witness ==
    /\ AddsDone
    /\ banks[mainnet_bank].store = FixtureTarget
    /\ banks[tim_cluster_bank].store = FixtureSource
    /\ LiveKeys(banks, merged_bank) = {1, 4, 5}

\* C2 as stated: every key the target classifies as Other holds the target's
\* record in the merged bank, whatever the source holds under that key.
C2_OtherUnchangedForAnySource ==
    AddsDone =>
      \A k \in OtherKeys(banks, mainnet_bank) :
         /\ k \in VisibleKeys(banks, merged_bank)
         /\ LoadAccount(banks, merged_bank, k) = LoadAccount(banks, mainnet_bank, k)

\* C2 as amended: every key the target classifies as Other, and under which
\* the source holds no live Vote or Stake account, holds the target's record
\* in the merged bank, field for field; under a key where the source does
\* hold one, the merged bank holds the source's record.
C2_OtherUnchanged ==
    AddsDone =>
      \A k \in OtherKeys(banks, mainnet_bank) :
         /\ k \in VisibleKeys(banks, merged_bank)
         /\ LoadAccount(banks, merged_bank, k) =
               IF k \in ValidatorKeys(banks, tim_cluster_bank)
               THEN LoadAccount(banks, tim_cluster_bank, k)
               ELSE LoadAccount(banks, mainnet_bank, k)

C2_Witness ==
    /\ AddsDone
    /\ \E k \in OtherKeys(banks, mainnet_bank) :
          /\ k \notin ValidatorKeys(banks, tim_cluster_bank)
          /\ LoadAccount(banks, merged_bank, k) = LoadAccount(banks, mainnet_bank, k)
    /\ ValidatorKeys(banks, mainnet_bank) # {}
    /\ ValidatorKeys(banks, tim_cluster_bank) # {}

\* C3: exclusion.  After remove_vote_accounts followed by
\* remove_stake_accounts the live accounts of the bank are exactly the
\* accounts that were Other before the two calls, as many and with the same
\* records, and the bank sees no key it did not see before.
C3_ExclusionCorrect ==
    RemovalsDone =>
      /\ LiveKeys(banks, merged_bank) = OtherKeys(banks, mainnet_bank)
      /\ Cardinality(LiveKeys(banks, merged_bank)) =
            Cardinality(OtherKeys(banks, mainnet_bank))
      /\ \A k \in LiveKeys(banks, merged_bank) :
            LoadAccount(banks, merged_bank, k) = LoadAccount(banks, mainnet_bank, k)
      /\ VisibleKeys(banks, merged_bank) = VisibleKeys(banks, mainnet_bank)

C3_Witness ==
    /\ RemovalsDone
    /\ banks[mainnet_bank].store = FixtureTarget
    /\ LiveKeys(banks, merged_bank) = {1}
    /\ stats.mainnet_vote_accounts_removed = 1
    /\ stats.mainnet_stake_accounts_removed = 1

\* C4: tombstone, not delete.  Every key the bank holds with the vote owner
\* when remove_vote_accounts runs (the stake owner when
\* remove_stake_accounts runs) is still a key of the bank right after the
\* call, with balance zero; and no removal takes a key out of the bank.
C4_TombstoneNotDelete ==
    [][ /\ (pc = "remove_vote" /\ pc' = "remove_stake") =>
             \A k \in VisibleKeys(banks, merged_bank) :
                LoadAccount(banks, merged_bank, k).owner = VoteProgram =>
                  /\ k \in VisibleKeys(banks', merged_bank')
                  /\ LoadAccount(banks', merged_bank', k).lamports = 0
        /\ (pc = "remove_stake" /\ pc' = "add_vote") =>
             \A k \in VisibleKeys(banks, merged_bank) :
                LoadAccount(banks, merged_bank, k).owner = StakeProgram =>
                  /\ k \in VisibleKeys(banks', merged_bank')
                  /\ LoadAccount(banks', merged_bank', k).lamports = 0
        /\ pc \in {"remove_vote", "remove_stake"} =>
             VisibleKeys(banks, merged_bank) \subseteq VisibleKeys(banks', merged_bank')
      ]_vars

\* A removal has just zeroed a live vote account and written it back under
\* its key.
C4_Witness ==
    /\ pc = "remove_stake"
    /\ \E k \in DOMAIN banks[merged_bank].store :
          /\ LoadAccount(banks, mainnet_bank, k).owner = VoteProgram
          /\ LoadAccount(banks, mainnet_bank, k).lamports # 0
          /\ banks[merged_bank].store[k].lamports = 0

\* -- the batched add_accounts: what the claims speak of

Cost(k) == approx_bytes(accounts[k])

\* The summed cost of the first n records applied.
RECURSIVE CumCost(_)
CumCost(n) == IF n = 0 THEN 0 ELSE CumCost(n - 1) + Cost(applied[n])

\* The summed cost of every record of the input.
RECURSIVE CostOf(_)
CostOf(ks) ==
    IF ks = {} THEN 0
    ELSE LET k == CHOOSE x \in ks : TRUE IN Cost(k) + CostOf(ks \ {k})

TotalCost == CostOf(DOMAIN accounts)

\* The bank of the chain that received the n-th record applied.
SlotOf(n) == CHOOSE i \in Chain : applied[n] \in DOMAIN banks[i].store

\* The cost the slot of the n-th record had received up to that record.
RECURSIVE SlotCost(_, _)
SlotCost(n, j) ==
    IF j = 0 THEN 0
    ELSE SlotCost(n, j - 1)
           + (IF SlotOf(j) = SlotOf(n) THEN Cost(applied[j]) ELSE 0)

\* A slot was ended (flush, squash, new child) right after the n-th record.
SlotEndedAfter(n) ==
    /\ SlotOf(n) < Len(banks)
    /\ n = Len(applied) \/ SlotOf(n + 1) # SlotOf(n)

\* The slots beyond the base: the starting bank and every child created.
SlotsBeyondBase == Len(banks) - starting_bank + 1

\* The slots beyond the base that hold a record.
NonEmptySlots == Cardinality({ i \in Chain : DOMAIN banks[i].store # {} })

Ceil(a, b) == (a + b - 1) \div b

\* The input of the spec's example: three records with empty data.
ThreeEmptyRecords ==
    /\ DOMAIN accounts = 1..3
    /\ \A k \in 1..3 : accounts[k].data = <<>>
    /\ slot_byte_limit = 1000

\* C5 as stated: for a limit L > 0 the slots beyond the base number
\* ceil(sum of costs / L), whether or not a trailing slot holding no record
\* is counted.
C5_SlotCountIsCeil ==
    (apc = "done" /\ slot_byte_limit > 0 /\ applied # <<>>) =>
      \/ SlotsBeyondBase = Ceil(TotalCost, slot_byte_limit)
      \/ NonEmptySlots = Ceil(TotalCost, slot_byte_limit)

\* C5 as amended: for a limit L > 0 the slots beyond the base number 1 + B,
\* B the number of records at which the cost accumulated in the record's
\* own slot reaches L; B * L is at most the summed cost, and B is at least 1
\* once the summed cost reaches L; three records with empty data and
\* L = 1000 give 2 slots holding 2 and 1 records.
C5_SlotCount ==
    (apc = "done" /\ slot_byte_limit > 0) =>
      LET B == SlotsBeyondBase - 1
      IN /\ B = Cardinality({ n \in 1..Len(applied) :
                                 SlotCost(n, n) >= slot_byte_limit })
         /\ B * slot_byte_limit <= TotalCost
         /\ TotalCost >= slot_byte_limit => B >= 1
         /\ ThreeEmptyRecords =>
               /\ SlotsBeyondBase = 2
               /\ Cardinality(DOMAIN banks[starting_bank].store) = 2
               /\ Cardinality(DOMAIN banks[starting_bank + 1].store) = 1

C5_Witness ==
    /\ apc = "done"
    /\ ThreeEmptyRecords
    /\ SlotsBeyondBase = 2
    /\ Cardinality(DOMAIN banks[starting_bank].store) = 2
    /\ Cardinality(DOMAIN banks[starting_bank + 1].store) = 1

\* C6 as stated: for a limit L > 0 a slot ends after the n-th record exactly
\* when the cost summed from the start of the invocation passes a multiple
\* of L with that record.
C6_BoundaryAtMultiples ==
    (apc \in {"loop", "done"} /\ slot_byte_limit > 0) =>
      \A n \in 1..Len(applied) :
         SlotEndedAfter(n) <=>
           (CumCost(n) \div slot_byte_limit) > (CumCost(n - 1) \div slot_byte_limit)

\* C6 as amended: for a limit L > 0 a slot ends after the n-th record exactly
\* when the cost accumulated since the previous slot end (since the start for
\* the first slot) reaches L with that record.
C6_BoundaryAtSlotLimit ==
    (apc \in {"loop", "done"} /\ slot_byte_limit > 0) =>
      \A n \in 1..Len(applied) :
         SlotEndedAfter(n) <=> SlotCost(n, n) >= slot_byte_limit

\* A slot has ended on an overshoot and a later record has not ended one.
C6_Witness ==
    /\ apc = "done"
    /\ slot_byte_limit = 600
    /\ Len(applied) = 3
    /\ ~SlotEndedAfter(1) /\ SlotEndedAfter(2) /\ ~SlotEndedAfter(3)

\* C7: two runs of add_accounts on the same input end with the same number
\* of slots and the same records in each slot.
C7_SameSlotsOnSameInput ==
    (apc = "done" /\ prev_run # <<>>) => SlotAssignment = prev_run[1]

\* C8: when add_accounts returns, no bank of the chain holds a write made
\* after the last flush called on it.
C8_NothingUnflushed ==
    apc = "done" => \A i \in Chain : banks[i].unflushed = {}

\* add_accounts has returned after ending a slot and writing to the tip.
C8_Witness ==
    /\ apc = "done"
    /\ Len(banks) > starting_bank
    /\ DOMAIN banks[returned].store # {}
    /\ \A i \in Chain : banks[i].unflushed = {}

\* C9: the bank returned is the tip of the chain (the starting bank when no
\* slot ended), it is Working and was never squashed, and every other bank
\* add_accounts wrote to is Squashed.
C9_ReturnedTip ==
    apc = "done" =>
      /\ returned = Len(banks)
      /\ \A i \in Chain : i # starting_bank => banks[i].parent = i - 1
      /\ (\A n \in 1..Len(applied) : ~SlotEndedAfter(n)) => returned = starting_bank
      /\ banks[returned].phase = "Working"
      /\ banks[returned].history = <<"Working">>
      /\ \A i \in Chain \ {returned} :
            DOMAIN banks[i].store # {} => banks[i].phase = "Squashed"

\* add_accounts has returned after ending two slots.
C9_Witness ==
    /\ apc = "done"
    /\ returned = starting_bank + 2
    /\ banks[returned].phase = "Working"
    /\ banks[starting_bank].phase = "Squashed"
    /\ banks[starting_bank + 1].phase = "Squashed"

\* C10: the bank handed to the Writer has gone from Working to Squashed and
\* has no write that a flush has not covered, with and without a warp.
C10_ArchiveOnlyFromSquashed ==
    archive # <<>> =>
      /\ archive[1].phase = "Squashed"
      /\ archive[1].unflushed = {}
      /\ banks[final_bank].history = <<"Working", "Squashed", "Archived">>


(***************************************************************************)
(* C11  Flush before classify                                              *)
(***************************************************************************)

\* The steps of merge_snapshots that scan a bank, and the bank each reads:
\* count_total_accounts (main.rs:256, 320), extract_* (main.rs:267-268),
\* remove_* (main.rs:283-284).
ScanSteps ==
    {"count_mainnet", "extract_vote", "extract_stake",
     "remove_vote", "remove_stake", "count_final"}

ScannedBank ==
    CASE pc = "count_mainnet" -> mainnet_bank
      [] pc \in {"extract_vote", "extract_stake"} -> tim_cluster_bank
      [] pc \in {"remove_vote", "remove_stake"} -> merged_bank
      [] pc = "count_final" -> final_bank

\* C11: whenever a step of merge_snapshots is about to scan a bank
\* (get_program_accounts in remove_*, scan_all_accounts in
\* count_total_accounts), every write made to that bank has been flushed.
C11_FlushedBeforeScan ==
    pc \in ScanSteps => banks[ScannedBank].unflushed = {}


(***************************************************************************)
(* C12  Aggregate exactness at serialization                               *)
(***************************************************************************)

\* The steps of merge_snapshots from the reconciliation (main.rs:293-295) to
\* the hand-over to the Writer (main.rs:327).
AfterReconciliation == pc \in {"warp", "count_final", "create_dir", "create_snapshot"}

\* No account is written in this step: the banks that exist keep their
\* records and a bank created in the step holds none of its own.
NoAccountWritten ==
    /\ \A i \in 1..Len(banks) : banks'[i].store = banks[i].store
    /\ \A i \in (Len(banks) + 1)..Len(banks') : banks'[i].store = EmptyMap

\* C12: the capitalization handed to the Writer is the literal sum of the
\* balances of the live accounts handed over with it, and no step between
\* the reconciliation and the serialization writes an account.
C12_ExactAtSerialization ==
    /\ [](archive # <<>> =>
            archive[1].capitalization =
              SumLamports(archive[1].accounts,
                          { k \in DOMAIN archive[1].accounts :
                              archive[1].accounts[k].lamports # 0 }))
    /\ [][AfterReconciliation => NoAccountWritten]_vars

\* An archive written after a merge that changed the capitalization, the
\* new one being the largest a u64 holds.
C12_Witness ==
    /\ archive # <<>>
    /\ archive[1].capitalization = U64_MAX
    /\ stats.capitalization_before # stats.capitalization_after


(***************************************************************************)
(* C13  Warp effect                                                        *)
(***************************************************************************)

\* merge_snapshots has gone through the warp (main.rs:305-318) with a warp
\* slot above the merged bank's slot.
WarpedAbove ==
    /\ warp_slot # <<>>
    /\ pc # "panic"
    /\ warp_slot[1] > banks[merged_bank].slot

\* C13: after a warp to a slot above the merged bank's, the final bank has
\* exactly the warp slot and the merged bank as parent, the merged bank is
\* squashed and flushed, and no bank has, and no archive is written for, a
\* slot strictly between the two.
C13_WarpEffect ==
    WarpedAbove =>
      /\ final_bank # merged_bank
      /\ banks[final_bank].slot = warp_slot[1]
      /\ banks[final_bank].parent = merged_bank
      /\ banks[merged_bank].history = <<"Working", "Squashed">>
      /\ banks[merged_bank].unflushed = {}
      /\ \A i \in 1..Len(banks) :
            ~(banks[merged_bank].slot < banks[i].slot /\ banks[i].slot < warp_slot[1])
      /\ archive # <<>> => archive[1].slot = warp_slot[1]

\* The archive of a bank warped two slots past the merged bank's.
C13_Witness ==
    /\ WarpedAbove
    /\ warp_slot[1] = banks[merged_bank].slot + 2
    /\ DOMAIN banks[merged_bank].store # {}
    /\ archive # <<>>


(***************************************************************************)
(* C14  Warp precondition                                                  *)
(***************************************************************************)

\* merge_snapshots has reached the warp with a warp slot that is not above
\* the merged bank's slot.
WarpedNotAbove ==
    /\ warp_slot # <<>>
    /\ warp_slot[1] <= banks[merged_bank].slot

\* C14: with a warp slot that is not above the merged bank's slot the warp
\* fails: merge_snapshots returns an error, no warped bank exists and no
\* archive is written.
C14_WarpNotAboveFails ==
    WarpedNotAbove =>
      /\ pc = "error"
      /\ failed_at = "warp"
      /\ \A i \in 1..Len(banks) : banks[i].parent # merged_bank
      /\ archive = <<>>


(***************************************************************************)
(* C15  Partition totality                                                 *)
(***************************************************************************)

\* The key sets of the three classifiers of merge.rs on bank i, and the sum
\* of their sizes.
VoteKeysOf(i) == DOMAIN extract_vote_accounts(banks, i)
StakeKeysOf(i) == DOMAIN extract_stake_accounts(banks, i)
SystemKeysOf(i) == DOMAIN extract_system_accounts(banks, i)

ClassifiedCount(i) ==
    Cardinality(VoteKeysOf(i)) + Cardinality(StakeKeysOf(i))
      + Cardinality(SystemKeysOf(i))

PairwiseDisjoint(i) ==
    /\ VoteKeysOf(i) \cap StakeKeysOf(i) = {}
    /\ VoteKeysOf(i) \cap SystemKeysOf(i) = {}
    /\ StakeKeysOf(i) \cap SystemKeysOf(i) = {}

\* The keys of bank i that a classifier can return: live and owned by one
\* of the three programs.
ThreeProgramKeys(i) ==
    { k \in VisibleKeys(banks, i) :
        /\ LoadAccount(banks, i, k).lamports # 0
        /\ LoadAccount(banks, i, k).owner \in
              {VoteProgram, StakeProgram, SystemProgram} }

\* The bank whose accounts can differ from those of the state before: the
\* one created last.  merge_snapshots stores into a bank only while it is
\* the last it has created, so that every content a bank ever has is the
\* content of the last bank in some state.
BanksInChange == {Len(banks)} \ {0}

AfterRecord(n) == apc = "loop" /\ Len(applied) = n /\ n >= 1

\* The records the current bank has received.
RecordsInCurrentSlot == Cardinality(DOMAIN banks[current_bank].store)

\* C16 as stated: after every FLUSH_INTERVAL_ACCOUNTS-th record, counted over
\* the whole call, the bank that received the record has no unflushed write.
C16_CheckpointOverWholeCall ==
    \A n \in 1..MaxRecords :
      (AfterRecord(n) /\ n % FLUSH_INTERVAL_ACCOUNTS = 0) =>
          banks[SlotOf(n)].unflushed = {}

\* C16: after a record that did not end its slot, the current bank is
\* Working, and it has no unflushed write exactly when the number of
\* records applied since the slot began is a multiple of
\* FLUSH_INTERVAL_ACCOUNTS.
C16_CheckpointPerSlot ==
    \A n \in 1..MaxRecords :
      (AfterRecord(n) /\ SlotOf(n) = current_bank) =>
          /\ banks[current_bank].phase = "Working"
          /\ banks[current_bank].history = <<"Working">>
          /\ banks[current_bank].unflushed = {}
               <=> RecordsInCurrentSlot % FLUSH_INTERVAL_ACCOUNTS = 0

\* The periodic flush has run under a limit the slot has not reached.
C16_Witness ==
    /\ apc = "loop"
    /\ applied # <<>>
    /\ slot_byte_limit > 0
    /\ RecordsInCurrentSlot = FLUSH_INTERVAL_ACCOUNTS
    /\ banks[current_bank].unflushed = {}
    /\ banks[current_bank].phase = "Working"


(***************************************************************************)
(* C17  Strictly increasing slots                                          *)
(***************************************************************************)

\* The banks add_accounts created at a byte-limit boundary (merge.rs:152-155).
ByteLimitChildren ==
    IF apc = "idle" THEN {} ELSE Chain \ {starting_bank}

\* C17: every bank that has a parent has a slot strictly above its parent's
\* (the merged child, the children of add_accounts, the warped bank for any
\* warp slot), and a child created at a byte-limit boundary has its parent's
\* slot plus one and its parent's collector id.
C17_SlotsStrictlyIncrease ==
    /\ \A i \in 1..Len(banks) :
          banks[i].parent # 0 => banks[i].slot > banks[banks[i].parent].slot
    /\ \A i \in ByteLimitChildren :
          /\ banks[i].slot = banks[banks[i].parent].slot + 1
          /\ banks[i].collector_id = banks[banks[i].parent].collector_id


(***************************************************************************)
(* C18  No write after squash, no parent before squash                     *)
(***************************************************************************)

\* A run of either program: merge_snapshots of main.rs, or add_accounts of
\* merge.rs on a starting bank.
AllInit == Init \/ BatchInit

AllNext == MergeNext \/ BatchNext

SpecAll == AllInit /\ [][AllNext]_vars

\* The bank has gone through squash().
WasSquashed(b) == \E j \in 1..Len(b.history) : b.history[j] = "Squashed"

SourceLoadSteps ==
    {"open_genesis", "load_mainnet", "open_tim_genesis", "load_tim",
     "extract_vote", "extract_stake"}

\* C19: when merge_snapshots has returned the error of a source load step,
\* no child bank exists, no bank has received a store since it was loaded,
\* and no directory or archive has been written.
C19_SourceErrorBeforeMutation ==
    (pc = "error" /\ failed_at \in SourceLoadSteps) =>
      /\ merged_bank = 0
      /\ final_bank = 0
      /\ \A i \in 1..Len(banks) :
            /\ banks[i].parent = 0
            /\ banks[i].unflushed = {}
            /\ banks[i].history = <<"Working", "Squashed">>
            /\ banks[i].capitalization =
                 SumLamports(banks[i].store, DOMAIN banks[i].store)
      /\ dirs = {}
      /\ archive = <<>>

\* The extraction of the source's stake accounts has failed, both snapshots
\* loaded, the target holding a vote account the merge would have zeroed.
C19_Witness ==
    /\ pc = "error"
    /\ failed_at = "extract_stake"
    /\ Len(banks) = 2
    /\ tim_vote_accounts # EmptyMap
    /\ extract_vote_accounts(banks, mainnet_bank) # EmptyMap


(***************************************************************************)
(* C20  Directory errors precede any work                                  *)
(***************************************************************************)

\* C20: when merge_snapshots has returned the error of creating the output
\* directory (main.rs:324-325), no snapshot has been loaded, no account
\* classified and no bank created or written.
C20_DirectoryErrorBeforeWork ==
    (pc = "error" /\ failed_at = "create_dir") =>
      /\ banks = <<>>
      /\ mainnet_bank = 0
      /\ tim_cluster_bank = 0
      /\ merged_bank = 0
      /\ tim_vote_accounts = EmptyMap
      /\ tim_stake_accounts = EmptyMap
      /\ stats = InitStats


(***************************************************************************)
(* C21  Removal touches only the class and only the balance                *)
(***************************************************************************)

\* What a removal that scans by program id owner has done in this step to
\* the bank it was called on, count being the number it returned.
RemovalFrame(owner, count) ==
    LET before == AccountsOf(banks, merged_bank)
        after == AccountsOf(banks', merged_bank)
        class == { k \in DOMAIN before :
                     before[k].owner = owner /\ before[k].lamports # 0 }
    IN /\ count = Cardinality(class)
       /\ class = {} => (count = 0 /\ banks' = banks)
       /\ DOMAIN after = DOMAIN before
       /\ \A k \in (DOMAIN before) \ class : after[k] = before[k]
       /\ \A k \in class :
             /\ after[k].lamports = 0
             /\ after[k].data = before[k].data
             /\ after[k].owner = before[k].owner
             /\ after[k].executable = before[k].executable
             /\ after[k].rent_epoch = before[k].rent_epoch

\* C21: remove_vote_accounts (remove_stake_accounts) returns the number of
\* live accounts the vote (stake) program owns at its scan, returns 0 and
\* leaves every bank as it was when there is none, leaves every record of
\* another owner as it was, and changes only the balance of those it zeroes.
C21_RemovalFrame ==
    [][ /\ (pc = "remove_vote" /\ pc' = "remove_stake") =>
             RemovalFrame(VoteProgram, stats'.mainnet_vote_accounts_removed)
        /\ (pc = "remove_stake" /\ pc' = "add_vote") =>
             RemovalFrame(StakeProgram, stats'.mainnet_stake_accounts_removed)
      ]_vars

\* Both removals have run on a bank holding a vote account with data, a
\* stake account and an account of another owner; one of each was counted.
C21_Witness ==
    /\ pc = "add_vote"
    /\ stats.mainnet_vote_accounts_removed = 1
    /\ stats.mainnet_stake_accounts_removed = 1
    /\ \E k \in DOMAIN banks[merged_bank].store :
          /\ banks[merged_bank].store[k].owner = VoteProgram
          /\ banks[merged_bank].store[k].data # <<>>
          /\ banks[merged_bank].store[k].lamports = 0
          /\ banks[mainnet_bank].store[k].lamports # 0
    /\ \E k \in DOMAIN banks[mainnet_bank].store :
          /\ banks[mainnet_bank].store[k].owner = SystemProgram
          /\ k \notin DOMAIN banks[merged_bank].store


(***************************************************************************)
(* C22  add_accounts applies every record wholesale                        *)
(***************************************************************************)

\* The record the starting bank saw under a key before the call: the one of
\* its parent, the starting bank holding none of its own (BaseStates).
StartingRecord == Account(2, <<7>>, SystemProgram, FALSE, 0)

\* C22: add_accounts has no position but its loop and its Ok return; once
\* it has returned, the returned bank read through its parents holds under
\* every key of the map the supplied record, field for field, under every
\* other key the record the starting bank saw before the call, and no
\* other key.
C22_AppliedWholesale ==
    /\ pc = "none" => apc \in {"loop", "done"}
    /\ apc = "done" =>
         /\ returned \in Chain
         /\ VisibleKeys(banks, returned) =
               (DOMAIN accounts) \cup (DOMAIN banks[1].store)
         /\ \A k \in DOMAIN accounts :
               LoadAccount(banks, returned, k) = accounts[k]
         /\ \A k \in (DOMAIN banks[1].store) \ (DOMAIN accounts) :
               LoadAccount(banks, returned, k) = StartingRecord

\* add_accounts has returned after ending a slot, with a record of the map
\* over an older record of the starting bank and an older record kept.
C22_Witness ==
    /\ apc = "done"
    /\ returned > starting_bank
    /\ (DOMAIN accounts) \cap (DOMAIN banks[1].store) # {}
    /\ (DOMAIN banks[1].store) \ (DOMAIN accounts) # {}
    /\ \E k \in DOMAIN accounts :
          /\ k \in DOMAIN banks[starting_bank].store
          /\ accounts[k].data # <<>>


(***************************************************************************)
(* C23  Per-slot cost invariant of add_accounts                            *)
(***************************************************************************)

\* The banks of the chain add_accounts has squashed (merge.rs:151).
SquashedByAddAccounts == { i \in Chain : banks[i].phase = "Squashed" }

\* The summed cost of the records bank i received in this call.
BankCost(i) == CostOf(DOMAIN banks[i].store)

\* The record bank i received last.
LastRecordOf(i) ==
    LET n == CHOOSE m \in 1..Len(applied) :
                 /\ applied[m] \in DOMAIN banks[i].store
                 /\ \A j \in (m + 1)..Len(applied) :
                       applied[j] \notin DOMAIN banks[i].store
    IN applied[n]

\* The cost invariant for the limit L: a squashed bank received a record,
\* records of summed cost L at least, and below L without the last of them;
\* the returned tip received records of summed cost below L.
CostInvariant(L) ==
    /\ \A i \in SquashedByAddAccounts :
          /\ DOMAIN banks[i].store # {}
          /\ BankCost(i) >= L
          /\ BankCost(i) - Cost(LastRecordOf(i)) < L
    /\ apc = "done" => BankCost(returned) < L

\* C23 as stated: the cost invariant holds for every byte limit.
C23_CostInvariantForEveryLimit ==
    apc \in {"loop", "done"} => CostInvariant(slot_byte_limit)

\* C23: the cost invariant holds for every byte limit above zero; under the
\* limit zero every squashed bank received exactly one record and the
\* returned tip none.
C23_CostInvariant ==
    apc \in {"loop", "done"} =>
      /\ slot_byte_limit > 0 => CostInvariant(slot_byte_limit)
      /\ slot_byte_limit = 0 =>
            /\ \A i \in SquashedByAddAccounts :
                  Cardinality(DOMAIN banks[i].store) = 1
            /\ apc = "done" => DOMAIN banks[returned].store = {}

\* add_accounts has returned after two records ended a slot on an overshoot
\* and a third went to the tip.
C23_Witness ==
    /\ apc = "done"
    /\ slot_byte_limit = 1000
    /\ SquashedByAddAccounts = {starting_bank}
    /\ Cardinality(DOMAIN banks[starting_bank].store) = 2
    /\ BankCost(starting_bank) > slot_byte_limit
    /\ Cardinality(DOMAIN banks[returned].store) = 1


(***************************************************************************)
(* C24  Bounded unflushed writes in add_accounts                           *)
(***************************************************************************)

\* The records stored into bank i since its most recent flush.
StoredSinceFlush(i) == Cardinality(banks[i].unflushed)

\* C24: after every iteration of the loop of add_accounts, and after its
\* return, the current bank, like every bank of the chain, holds fewer than
\* FLUSH_INTERVAL_ACCOUNTS records stored since its most recent flush.
C24_BoundedUnflushed ==
    apc \in {"loop", "done"} =>
      /\ StoredSinceFlush(current_bank) < FLUSH_INTERVAL_ACCOUNTS
      /\ \A i \in Chain : StoredSinceFlush(i) < FLUSH_INTERVAL_ACCOUNTS

\* The periodic flush has run and one more record has been stored into the
\* same bank since.
C24_Witness ==
    /\ apc = "loop"
    /\ Len(applied) = FLUSH_INTERVAL_ACCOUNTS + 1
    /\ current_bank = starting_bank
    /\ Cardinality(DOMAIN banks[current_bank].store) = FLUSH_INTERVAL_ACCOUNTS + 1
    /\ StoredSinceFlush(current_bank) = 1

============================================================================
